---------------------------- MODULE Spec2Model ----------------------------
(***************************************************************************)
(* Model of cldfbench_myphoible.py: the format readers, the segment        *)
(* normalizer, the identifier generator and the aggregation loop of        *)
(* Dataset.cmd_makecldf.                                                   *)
(*                                                                         *)
(* A Python string is a sequence of characters.  A character is a TLA+     *)
(* string naming one codepoint: printable ASCII characters name            *)
(* themselves, "U+XXXX" names the codepoint XXXX.  Python's None is the    *)
(* value NoneVal.  An exception is a result record with ok = FALSE and the *)
(* exception's class in err.                                               *)
(***************************************************************************)
EXTENDS Integers, Sequences, FiniteSets, TLC

VARIABLES
    pc,          \* position of the run (of the function under check)
    arg,         \* the input drawn by Init (Spec: the configuration files)
    ret,         \* SpecNorm, SpecId, SpecCommon, SpecRA: the call's result
    ret2,        \* SpecNorm: the result of normalizing ret again
    reader,      \* read_raw_phoible_data: index of the next reader call
    data,        \* cmd_makecldf: the entries read (mutated by the loop)
    data0,       \* history: the entries as the readers returned them
    idx,         \* cmd_makecldf: index in data of the next entry
    parameters,  \* cmd_makecldf: list of (par_id, normalized, bipa, desc)
    values,      \* cmd_makecldf: list of Value rows
    counter,     \* cmd_makecldf: next Value ID
    written,     \* what args.writer.write received (called = FALSE before)
    error        \* class of the exception that ended the run, or "none"

vars == <<pc, arg, ret, ret2, reader, data, data0, idx, parameters, values,
          counter, written, error>>

---------------------------------------------------------------------------
(* Bounds of the model. *)

\* longest raw string handed to normalize_grapheme
MaxLen == 5
\* longest string handed to compute_id
MaxIdLen == 3
\* most rows of a file handed to read_phoible_common
MaxRows == 3
\* most segment columns, and most data rows, of a file handed to
\* read_phoible_ra
MaxCols == 2
MaxRaRows == 2
\* most entries the readers of one run return together
MaxEntries == 2

---------------------------------------------------------------------------
(* Characters and strings. *)

NoneVal == <<"<None>">>

CombiningTilde == "U+0303"
ATilde == "U+00E3"

\* ord(): the codepoint of each character the model uses
CodepointTable ==
    { <<"(", 40>>, <<")", 41>>, <<"[", 91>>, <<"]", 93>>, <<"<", 60>>,
      <<">", 62>>, <<"'", 39>>, <<"|", 124>>, <<"_", 95>>,
      <<"A", 65>>, <<"a", 97>>, <<"p", 112>>, <<"t", 116>>,
      <<"U+00E3", 227>>, <<"U+0303", 771>>, <<"U+1000", 4096>>,
      <<"U+10001", 65537>>, <<"U+10041", 65601>> }

Ord(c) == (CHOOSE p \in CodepointTable : p[1] = c)[2]

\* All strings over alphabet of length lo..hi
TextsOver(alphabet, lo, hi) ==
    UNION { [1..n -> alphabet] : n \in lo..hi }

\* text[1:-1]
StripEnds(text) == SubSeq(text, 2, Len(text) - 1)

\* text.split(sep)[0]: the part before the first sep (all of it without one)
RECURSIVE SplitFirst(_, _)
SplitFirst(text, sep) ==
    IF text = <<>> THEN <<>>
    ELSE IF Head(text) = sep THEN <<>>
    ELSE <<Head(text)>> \o SplitFirst(Tail(text), sep)

\* sep in text
Contains(text, sep) == \E k \in 1..Len(text) : text[k] = sep

\* unicodedata.normalize("NFC", text) on the model's alphabet: the only
\* canonical composition there is a + U+0303 -> U+00E3
RECURSIVE NFC(_)
NFC(text) ==
    IF Len(text) < 2 THEN text
    ELSE IF text[1] = "a" /\ text[2] = CombiningTilde
         THEN <<ATilde>> \o NFC(SubSeq(text, 3, Len(text)))
         ELSE <<text[1]>> \o NFC(Tail(text))

Ok(v) == [ok |-> TRUE, val |-> v, err |-> "none"]
Raise(e) == [ok |-> FALSE, val |-> <<>>, err |-> e]

---------------------------------------------------------------------------
(* compute_id *)

HexWidth == 4

HexDigits == <<"0", "1", "2", "3", "4", "5", "6", "7", "8", "9",
               "A", "B", "C", "D", "E", "F">>

RECURSIVE ToBase(_, _)
ToBase(n, base) ==
    IF n < base THEN <<n>> ELSE ToBase(n \div base, base) \o <<n % base>>

RECURSIVE ZeroPad(_, _)
ZeroPad(digits, width) ==
    IF Len(digits) >= width THEN digits ELSE ZeroPad(<<0>> \o digits, width)

\* "{0:0{1}X}".format(n, width)
FormatHex(n, width) ==
    LET ds == ZeroPad(ToBase(n, 16), width)
    IN  [k \in 1..Len(ds) |-> HexDigits[ds[k] + 1]]

\* str(n) for n >= 0
StrInt(n) ==
    LET ds == ToBase(n, 10)
    IN  [k \in 1..Len(ds) |-> HexDigits[ds[k] + 1]]

\* faulty variant: the token of a character without its u prefix
CharTokenNoPrefix(char) == FormatHex(Ord(char), HexWidth)

\* "u{0:0{1}X}".format(ord(char), 4)
CharToken(char) == <<"u">> \o FormatHex(Ord(char), HexWidth)

RECURSIVE unicode_repr(_)
unicode_repr(text) ==
    IF text = <<>> THEN <<>>
    ELSE CharToken(Head(text)) \o unicode_repr(Tail(text))

\* unidecode(char): ASCII stays; of the other characters of the model
\* U+00E3 is transliterated "a" and U+1000 "k", the rest have no
\* transliteration
UnidecodeTable == { <<"U+00E3", <<"a">> >>, <<"U+1000", <<"k">> >> }

NonAscii == {"U+00E3", "U+0303", "U+1000", "U+10001", "U+10041"}

UnidecodeChar(char) ==
    IF char \notin NonAscii THEN <<char>>
    ELSE IF \E p \in UnidecodeTable : p[1] = char
    THEN (CHOOSE p \in UnidecodeTable : p[1] = char)[2]
    ELSE <<>>

RECURSIVE Unidecode(_)
Unidecode(text) ==
    IF text = <<>> THEN <<>>
    ELSE UnidecodeChar(Head(text)) \o Unidecode(Tail(text))

LowerTable ==
    { <<"A", "a">>, <<"B", "b">>, <<"C", "c">>, <<"D", "d">>, <<"E", "e">>, <<"F", "f">>,
      <<"G", "g">>, <<"H", "h">>, <<"I", "i">>, <<"J", "j">>, <<"K", "k">>, <<"L", "l">>,
      <<"M", "m">>, <<"N", "n">>, <<"O", "o">>, <<"P", "p">>, <<"Q", "q">>, <<"R", "r">>,
      <<"S", "s">>, <<"T", "t">>, <<"U", "u">>, <<"V", "v">>, <<"W", "w">>, <<"X", "x">>,
      <<"Y", "y">>, <<"Z", "z">> }

Lower(char) ==
    IF \E p \in LowerTable : p[1] = char
    THEN (CHOOSE p \in LowerTable : p[1] = char)[2]
    ELSE char

AsciiAlnum ==
    { "a", "b", "c", "d", "e", "f", "g", "h", "i", "j", "k", "l",
      "m", "n", "o", "p", "q", "r", "s", "t", "u", "v", "w", "x",
      "y", "z", "0", "1", "2", "3", "4", "5", "6", "7", "8", "9" }

\* clldutils.misc.slug on an ASCII string: lower case, punctuation and
\* white space removed
RECURSIVE slug(_)
slug(text) ==
    IF text = <<>> THEN <<>>
    ELSE (IF Lower(Head(text)) \in AsciiAlnum
          THEN <<Lower(Head(text))>> ELSE <<>>) \o slug(Tail(text))

\* faulty variant: the identifier without its codepoint fingerprint
compute_id_slug_only(text) == slug(Unidecode(text)) \o <<"_">>

compute_id(text) == slug(Unidecode(text)) \o <<"_">> \o unicode_repr(text)

\* the part of an identifier after its first underscore
RECURSIVE AfterFirst(_, _)
AfterFirst(text, sep) ==
    IF text = <<>> THEN <<>>
    ELSE IF Head(text) = sep THEN Tail(text)
    ELSE AfterFirst(Tail(text), sep)

---------------------------------------------------------------------------
(* normalize_grapheme *)

normalize_grapheme(text) ==
    LET t0 == NFC(text)
    IN  IF t0 = <<>> THEN Raise("IndexError")                \* text[0]
        ELSE LET t1 == IF t0[1] = "(" /\ t0[Len(t0)] = ")"
                       THEN StripEnds(t0) ELSE t0
             IN  IF t1 = <<>> THEN Raise("IndexError")       \* text[0]
                 ELSE LET t2 == IF t1[1] = "[" /\ t1[Len(t1)] = "]"
                                THEN StripEnds(t1) ELSE t1
                      IN  Ok(t2)

---------------------------------------------------------------------------
(* Values the readers and the aggregation loop share. *)

\* a key an entry does not have
NoKey == <<"<absent>">>

TrueStr == <<"T", "r", "u", "e">>
FalseStr == <<"F", "a", "l", "s", "e">>
NoneStr == <<"N", "o", "n", "e">>
One == <<"1">>

\* f"{v}"
Str(v) == IF v = NoneVal THEN NoneStr ELSE v

\* if v: (None and "" are false)
Truthy(v) == v # NoneVal /\ v # <<>>

Range(seq) == { seq[k] : k \in 1..Len(seq) }

LastIndex(fields, key) ==
    CHOOSE i \in 1..Len(fields) :
        fields[i] = key /\ \A j \in (i + 1)..Len(fields) : fields[j] # key

\* a row of csv.DictReader: every field name is a key, a name given twice
\* keeps its last cell, a name past the end of a short row maps to None
DictRow(fieldnames, cells) ==
    [key \in Range(fieldnames) |->
        LET i == LastIndex(fieldnames, key)
        IN  IF i <= Len(cells) THEN cells[i] ELSE NoneVal]

NoFile == [exists |-> FALSE, fieldnames |-> <<>>, rows |-> <<>>]

Entry(lang_id, source, inv_id, segment_raw, marginal) ==
    [lang_id |-> lang_id, source |-> source, inv_id |-> inv_id,
     segment_raw |-> segment_raw, marginal |-> marginal]

\* values the input files are built from
InvA == <<"A">>
InvB == <<"B">>
LangL1 == <<"L", "1">>
SegP == <<"p">>
SegT == <<"t">>
SourceAA == <<"A", "A">>

InventoryIDCol == <<"I", "n", "v", "e", "n", "t", "o", "r", "y", "I", "D">>
LanguageNameCol == <<"L", "a", "n", "g", "u", "a", "g", "e", "N", "a", "m", "e">>
PhonemeOldCol == <<"P", "h", "o", "n", "e", "m", "e", "O", "l", "d">>
SegmentCol == <<"S", "e", "g", "m", "e", "n", "t">>
PhonemeCol == <<"P", "h", "o", "n", "e", "m", "e">>
PhoiblePrefix == <<"P", "H", "O", "I", "B", "L", "E", "_">>

---------------------------------------------------------------------------
(* read_phoible_common *)

\* the column the segment is read from
SegmentField(fieldnames) ==
    IF PhonemeOldCol \in Range(fieldnames) THEN PhonemeOldCol
    ELSE IF SegmentCol \in Range(fieldnames) THEN SegmentCol
    ELSE PhonemeCol

\* faulty variant: a row's inventory id and language name are taken from the row
\* itself, nothing is carried over from the rows before it
RECURSIVE CommonScanNoCarry(_, _, _, _, _, _, _)
CommonScanNoCarry(fieldnames, rows, k, curr_inventory_id, curr_lang_name, entries, source) ==
    IF k > Len(rows) THEN Ok(entries)
    ELSE IF rows[k] = <<>>
    THEN CommonScanNoCarry(fieldnames, rows, k + 1, curr_inventory_id,
                           curr_lang_name, entries, source)
    ELSE
    LET row == DictRow(fieldnames, rows[k])
        segment_field == SegmentField(fieldnames)
    IN  IF InventoryIDCol \notin DOMAIN row
           \/ LanguageNameCol \notin DOMAIN row
           \/ segment_field \notin DOMAIN row
        THEN Raise("KeyError")
        ELSE
        LET segment_raw == row[segment_field]
            new == IF Truthy(segment_raw)
                   THEN <<Entry(source \o <<"_">> \o Str(row[LanguageNameCol]),
                                PhoiblePrefix \o source,
                                row[InventoryIDCol], segment_raw, NoKey)>>
                   ELSE <<>>
        IN  CommonScanNoCarry(fieldnames, rows, k + 1, curr_inventory_id,
                              curr_lang_name, entries \o new, source)

\* the loop over the rows (lines 76-94), from row k on
RECURSIVE CommonScan(_, _, _, _, _, _, _)
CommonScan(fieldnames, rows, k, curr_inventory_id, curr_lang_name, entries, source) ==
    IF k > Len(rows) THEN Ok(entries)
    ELSE IF rows[k] = <<>>                     \* DictReader skips empty rows
    THEN CommonScan(fieldnames, rows, k + 1, curr_inventory_id,
                    curr_lang_name, entries, source)
    ELSE
    LET row == DictRow(fieldnames, rows[k])
        segment_field == SegmentField(fieldnames)
    IN  IF InventoryIDCol \notin DOMAIN row
           \/ LanguageNameCol \notin DOMAIN row
           \/ segment_field \notin DOMAIN row
        THEN Raise("KeyError")
        ELSE
        LET inv == IF Truthy(row[InventoryIDCol])
                   THEN row[InventoryIDCol] ELSE curr_inventory_id
            lang == IF Truthy(row[LanguageNameCol])
                    THEN row[LanguageNameCol] ELSE curr_lang_name
            segment_raw == row[segment_field]
            new == IF Truthy(segment_raw)
                   THEN <<Entry(source \o <<"_">> \o Str(lang),
                                PhoiblePrefix \o source,
                                inv, segment_raw, NoKey)>>
                   ELSE <<>>
        IN  CommonScan(fieldnames, rows, k + 1, inv, lang,
                       entries \o new, source)

read_phoible_common(file, source) ==
    IF ~file.exists THEN Raise("FileNotFoundError")
    ELSE CommonScan(file.fieldnames, file.rows, 1, NoneVal, NoneVal,
                    <<>>, source)

---------------------------------------------------------------------------
(* read_phoible_ra *)

HashCol == <<"#">>
LanguageNameSpCol == <<"L", "a", "n", "g", "u", "a", "g", "e", " ", "N", "a", "m", "e">>
LanguageCodeCol == <<"L", "a", "n", "g", "u", "a", "g", "e", " ", "C", "o", "d", "e">>
RaSource == <<"P", "H", "O", "I", "B", "L", "E", "_", "R", "A">>
RaTag == <<"R", "A">>

RaMetaCols == {InventoryIDCol, HashCol, LanguageNameSpCol, LanguageCodeCol}

\* {field: value for field, value in zip(fields, row)}: the pairs stop at
\* the shorter of the two, a name given twice keeps its last cell
ZipDict(fields, row) ==
    LET n == IF Len(fields) <= Len(row) THEN Len(fields) ELSE Len(row)
        zipped == SubSeq(fields, 1, n)
    IN  [key \in Range(zipped) |-> row[LastIndex(zipped, key)]]

\* the loop over the header's names (lines 122-138), from name k on
RECURSIVE RaRowEntries(_, _, _, _)
RaRowEntries(fields, rowdata, k, entries) ==
    IF k > Len(fields) THEN Ok(entries)
    ELSE LET segment_raw == fields[k]
         IN  IF segment_raw \in RaMetaCols
             THEN RaRowEntries(fields, rowdata, k + 1, entries)
             ELSE IF segment_raw \notin DOMAIN rowdata
             THEN Raise("KeyError")
             ELSE IF rowdata[segment_raw] = One
             THEN RaRowEntries(fields, rowdata, k + 1,
                      Append(entries,
                             Entry(RaTag \o <<"_">> \o
                                       rowdata[LanguageNameSpCol],
                                   RaSource, rowdata[InventoryIDCol],
                                   segment_raw, NoKey)))
             ELSE RaRowEntries(fields, rowdata, k + 1, entries)

\* the loop over the data rows (lines 116-138), from line k on
RECURSIVE RaScan(_, _, _, _)
RaScan(fields, lines, k, entries) ==
    IF k > Len(lines) THEN Ok(entries)
    ELSE LET rowdata == ZipDict(fields, lines[k])
         IN  IF InventoryIDCol \notin DOMAIN rowdata
                \/ LanguageNameSpCol \notin DOMAIN rowdata
             THEN Raise("KeyError")
             ELSE LET r == RaRowEntries(fields, rowdata, 1, entries)
                  IN  IF r.ok THEN RaScan(fields, lines, k + 1, r.val)
                      ELSE r

HeaderLine == 3

read_phoible_ra(file) ==
    IF ~file.exists THEN Raise("FileNotFoundError")
    ELSE IF Len(file.rows) < HeaderLine THEN Raise("StopIteration")
    ELSE RaScan(file.rows[HeaderLine], file.rows, HeaderLine + 1, <<>>)

---------------------------------------------------------------------------
(* read_phoible_saphon *)

SaphonPrefix == 17
SaphonSuffix == 37

NameCol == <<"N", "a", "m", "e">>
SaphonSource == <<"P", "H", "O", "I", "B", "L", "E", "_", "S", "A", "P", "H", "O", "N">>
SaphonTag == <<"S", "A", "P", "H", "O", "N">>

\* reader.fieldnames[17:-37]
SaphonSegments(fieldnames) ==
    IF Len(fieldnames) - SaphonSuffix > SaphonPrefix
    THEN SubSeq(fieldnames, SaphonPrefix + 1, Len(fieldnames) - SaphonSuffix)
    ELSE <<>>

\* the loop over the segment columns of one row (lines 155-166)
RECURSIVE SaphonRowEntries(_, _, _, _)
SaphonRowEntries(segments, row, k, entries) ==
    IF k > Len(segments) THEN Ok(entries)
    ELSE IF row[segments[k]] = One
    THEN IF NameCol \notin DOMAIN row \/ InventoryIDCol \notin DOMAIN row
         THEN Raise("KeyError")
         ELSE SaphonRowEntries(segments, row, k + 1,
                  Append(entries,
                         Entry(SaphonTag \o <<"_">> \o Str(row[NameCol]),
                               SaphonSource, row[InventoryIDCol],
                               segments[k], NoKey)))
    ELSE SaphonRowEntries(segments, row, k + 1, entries)

RECURSIVE SaphonScan(_, _, _, _)
SaphonScan(fieldnames, rows, k, entries) ==
    IF k > Len(rows) THEN Ok(entries)
    ELSE IF rows[k] = <<>>                     \* DictReader skips empty rows
    THEN SaphonScan(fieldnames, rows, k + 1, entries)
    ELSE LET r == SaphonRowEntries(SaphonSegments(fieldnames),
                                   DictRow(fieldnames, rows[k]), 1, entries)
         IN  IF r.ok THEN SaphonScan(fieldnames, rows, k + 1, r.val) ELSE r

read_phoible_saphon(file) ==
    IF ~file.exists THEN Raise("FileNotFoundError")
    ELSE SaphonScan(file.fieldnames, file.rows, 1, <<>>)

---------------------------------------------------------------------------
(* read_phoible_upsid.  A directory is a record of the rows of its four    *)
(* files, each row a record of the columns the reader uses.                *)

UpsidSource == <<"P", "H", "O", "I", "B", "L", "E", "_", "U", "P", "S", "I", "D">>
UpsidTag == <<"U", "P", "S", "I", "D">>
Zero == <<"0">>

\* lang_num2name after UPSID_Languages.tsv (lines 181-185)
LangNum2Name(languages) ==
    [num \in { languages[k].LangNum : k \in 1..Len(languages) } |->
        LET last == CHOOSE k \in 1..Len(languages) :
                        /\ languages[k].LangNum = num
                        /\ \A j \in (k + 1)..Len(languages) :
                               languages[j].LangNum # num
        IN  [name |-> languages[last].LangName, id |-> NoKey]]

LangNames(languages) == { languages[k].LangName : k \in 1..Len(languages) }

\* the loop over UPSID_LanguageCodes.tsv (lines 190-192), from row k on
RECURSIVE UpsidCodes(_, _, _, _)
UpsidCodes(codes, k, names, num2name) ==
    IF k > Len(codes) THEN Ok(num2name)
    ELSE IF codes[k].LanguageName \notin names
            \/ codes[k].upsidLangNum \notin DOMAIN num2name
    THEN Raise("KeyError")
    ELSE UpsidCodes(codes, k + 1, names,
             [num2name EXCEPT ![codes[k].upsidLangNum].id =
                                  codes[k].InventoryID])

\* segments after UPSID_CharCodes.tsv (lines 196-203)
CharCodeMap(charcodes) ==
    [ccid \in { charcodes[k].CCID : k \in 1..Len(charcodes) } |->
        LET last == CHOOSE k \in 1..Len(charcodes) :
                        /\ charcodes[k].CCID = ccid
                        /\ \A j \in (k + 1)..Len(charcodes) :
                               charcodes[j].CCID # ccid
        IN  charcodes[last].IPA]

\* str(row["anomalous"] != "0")
AnomalousFlag(anomalous) == IF anomalous # Zero THEN TrueStr ELSE FalseStr

\* the loop over UPSID_Segments.tsv (lines 208-218), from row k on
RECURSIVE UpsidSegments(_, _, _, _, _)
UpsidSegments(rows, k, num2name, segments, entries) ==
    IF k > Len(rows) THEN Ok(entries)
    ELSE LET row == rows[k]
         IN  IF row.upsidLangNum \notin DOMAIN num2name
             THEN Raise("KeyError")
             ELSE IF num2name[row.upsidLangNum].id = NoKey
             THEN Raise("KeyError")
             ELSE IF row.upsidCCID \notin DOMAIN segments
             THEN Raise("KeyError")
             ELSE UpsidSegments(rows, k + 1, num2name, segments,
                      Append(entries,
                             Entry(UpsidTag \o <<"_">> \o
                                       num2name[row.upsidLangNum].name,
                                   UpsidSource,
                                   num2name[row.upsidLangNum].id,
                                   segments[row.upsidCCID],
                                   AnomalousFlag(row.anomalous))))

read_phoible_upsid(dir) ==
    IF ~dir.exists THEN Raise("FileNotFoundError")
    ELSE LET joined == UpsidCodes(dir.LanguageCodes, 1,
                                  LangNames(dir.Languages),
                                  LangNum2Name(dir.Languages))
         IN  IF ~joined.ok THEN joined
             ELSE UpsidSegments(dir.Segments, 1, joined.val,
                                CharCodeMap(dir.CharCodes), <<>>)

---------------------------------------------------------------------------
(* Dataset.cmd_makecldf: the collaborators and the configuration.          *)

\* clts.bipa: the sounds the transcription system knows, each with its
\* string rendering and its name (a name is written as one token)
BipaSounds ==
    { [text |-> <<"a">>, grapheme |-> <<"a">>,
       name |-> <<"unrounded open front vowel">>],
      [text |-> <<ATilde>>, grapheme |-> <<ATilde>>,
       name |-> <<"nasalized unrounded open front vowel">>],
      [text |-> <<"p">>, grapheme |-> <<"p">>,
       name |-> <<"voiceless bilabial stop consonant">>] }

BipaPrefix == <<"B", "I", "P", "A", "_">>
UnkPrefix == <<"U", "N", "K", "_">>

\* raw/phoible-dev/mappings/InventoryID-Bibtex.csv as source_map, a
\* defaultdict(list)
SourceMap(inv_id) ==
    IF inv_id = InvA THEN << <<"m", "o", "r", "a", "n", "2", "0", "1", "4">> >> ELSE <<>>

\* glottolog.languoids(), by glottocode
Languoids ==
    { [glottocode |-> <<"a", "a", "a", "a", "1", "2", "3", "4">>, lineage |-> << <<<<"F", "a", "m">>, <<"f", "f", "f", "f", "1", "2", "3", "4">>>> >>,
       iso_code |-> <<"a", "a", "a">>, latitude |-> <<"1", ".", "5">>, longitude |-> <<"2", ".", "5">>,
       macroareas |-> << <<"A", "f", "r", "i", "c", "a">> >>, name |-> <<"A", "n", "a", "m", "e">>],
      [glottocode |-> <<"c", "c", "c", "c", "1", "2", "3", "4">>, lineage |-> <<>>,
       iso_code |-> NoneVal, latitude |-> NoneVal, longitude |-> NoneVal,
       macroareas |-> <<>>, name |-> <<"C", "n", "a", "m", "e">>] }

\* etc/languages.csv: inventory A is listed twice, inventory B not at all
LanguagesCsv ==
    << [ID |-> <<"A", "_", "o", "n", "e">>, Name |-> <<"O", "n", "e">>, Glottocode |-> <<"a", "a", "a", "a", "1", "2", "3", "4">>],
       [ID |-> <<"C", "_", "s", "e", "a">>, Name |-> <<"S", "e", "a">>, Glottocode |-> <<"c", "c", "c", "c", "1", "2", "3", "4">>],
       [ID |-> <<"A", "_", "t", "w", "o">>, Name |-> <<"T", "w", "o">>, Glottocode |-> <<>>] >>

\* the same with a glottocode Glottolog does not know
LanguagesCsvUnknown ==
    << [ID |-> <<"A", "_", "o", "n", "e">>, Name |-> <<"O", "n", "e">>, Glottocode |-> <<"z", "z", "z", "z", "1", "2", "3", "4">>] >>

\* phoible_lang (lines 342-348): the inventory id before the first "_" of a
\* language ID maps to the last language ID that starts with it
PhoibleLang(rows) ==
    [inv_id \in { SplitFirst(rows[k].ID, "_") : k \in 1..Len(rows) } |->
        LET last == CHOOSE k \in 1..Len(rows) :
                        /\ SplitFirst(rows[k].ID, "_") = inv_id
                        /\ \A j \in (k + 1)..Len(rows) :
                               SplitFirst(rows[j].ID, "_") # inv_id
        IN  rows[last].ID]

\* one element of languages (lines 364-383)
LangDict(row) ==
    IF row.Glottocode = <<>>
    THEN [ID |-> row.ID, Name |-> row.Name]
    ELSE LET lang == CHOOSE l \in Languoids : l.glottocode = row.Glottocode
         IN  [ID |-> row.ID, Name |-> row.Name,
              Family_Glottocode |-> IF lang.lineage # <<>>
                                    THEN lang.lineage[1][2] ELSE NoneVal,
              Family_Name |-> IF lang.lineage # <<>>
                              THEN lang.lineage[1][1] ELSE NoneVal,
              Glottocode |-> row.Glottocode,
              ISO639P3code |-> lang.iso_code,
              Latitude |-> lang.latitude,
              Longitude |-> lang.longitude,
              Macroarea |-> IF lang.macroareas # <<>>
                            THEN lang.macroareas[1] ELSE NoneVal,
              Glottolog_Name |-> lang.name]

\* languages (lines 356-383); languoids[row["Glottocode"]] raises KeyError
\* for a glottocode Glottolog does not know
Languages(rows) ==
    IF \E k \in 1..Len(rows) :
          /\ rows[k].Glottocode # <<>>
          /\ \A l \in Languoids : l.glottocode # rows[k].Glottocode
    THEN Raise("KeyError")
    ELSE Ok([k \in 1..Len(rows) |-> LangDict(rows[k])])

---------------------------------------------------------------------------
(* Dataset.cmd_makecldf: the body of the loop over the entries.            *)

\* lines 394-401: the bounding <...> or '...' is stripped and the entry
\* marked marginal; any other entry is marked not marginal
MarkMarginal(segment_raw) ==
    IF segment_raw[1] = "<" /\ segment_raw[Len(segment_raw)] = ">"
    THEN [segment_raw |-> StripEnds(segment_raw), marginal |-> TrueStr]
    ELSE IF segment_raw[1] = "'" /\ segment_raw[Len(segment_raw)] = "'"
    THEN [segment_raw |-> StripEnds(segment_raw), marginal |-> TrueStr]
    ELSE [segment_raw |-> segment_raw, marginal |-> FalseStr]

AllophoneMinLen == 3

\* lines 404-405
FirstAllophone(segment_raw) ==
    IF Len(segment_raw) >= AllophoneMinLen /\ Contains(segment_raw, "|")
    THEN SplitFirst(segment_raw, "|")
    ELSE segment_raw

\* lines 409-418: the tuple appended to parameters
ParameterOf(normalized) ==
    IF \E s \in BipaSounds : s.text = normalized
    THEN LET sound == CHOOSE s \in BipaSounds : s.text = normalized
         IN  <<BipaPrefix \o compute_id(normalized), normalized,
               sound.grapheme, sound.name>>
    ELSE <<UnkPrefix \o compute_id(normalized), normalized, <<>>, <<>> >>

\* faulty variant: an inventory without a language is mapped to None, as by
\* dict.get
LanguageOfOrNone(phoible_lang, inv_id) ==
    IF inv_id \in DOMAIN phoible_lang THEN Ok(phoible_lang[inv_id])
    ELSE Ok(NoneVal)

\* phoible_lang[entry["inv_id"]] (line 423)
LanguageOf(phoible_lang, inv_id) ==
    IF inv_id \in DOMAIN phoible_lang THEN Ok(phoible_lang[inv_id])
    ELSE Raise("KeyError")

\* faulty variant: the Value's parameter is identified from the entry's segment
\* instead of the identifier computed from its normalized text
ValueRowOwnId(entry, par_id, count, language_id) ==
    [ID |-> StrInt(count),
     Language_ID |-> language_id,
     Parameter_ID |-> UnkPrefix \o compute_id(entry.segment_raw),
     Value |-> entry.segment_raw,
     Contribution_ID |-> entry.inv_id,
     Source |-> SourceMap(entry.inv_id),
     Catalog |-> slug(entry.source)]

\* lines 420-430
ValueRow(entry, par_id, count, language_id) ==
    [ID |-> StrInt(count),
     Language_ID |-> language_id,
     Parameter_ID |-> par_id,
     Value |-> entry.segment_raw,
     Contribution_ID |-> entry.inv_id,
     Source |-> SourceMap(entry.inv_id),
     Catalog |-> slug(entry.source)]

\* lines 434-437: one segment for each distinct tuple of parameters
SegmentsOf(params) ==
    { [ID |-> p[1], Name |-> p[2], BIPA |-> p[3], Description |-> p[4]] :
        p \in Range(params) }

---------------------------------------------------------------------------
(* State shared by the specifications. *)

NoWrite == [called |-> FALSE]

\* the variables of cmd_makecldf before it has started
MainIdle ==
    /\ reader = 0
    /\ data = <<>>
    /\ data0 = <<>>
    /\ idx = 0
    /\ parameters = <<>>
    /\ values = <<>>
    /\ counter = 1
    /\ written = NoWrite
    /\ error = "none"

mainVars == <<reader, data, data0, idx, parameters, values, counter,
              written, error>>

\* the variables of the pure-function specifications when unused
NoResult == [ok |-> FALSE, val |-> <<>>, err |-> "not called"]

---------------------------------------------------------------------------
(* SpecCommon: read_phoible_common applied to one file.                    *)

CommonHeaders ==
    { <<InventoryIDCol, LanguageNameCol, PhonemeCol>>,
      <<InventoryIDCol, LanguageNameCol, SegmentCol, PhonemeCol>>,
      <<InventoryIDCol, LanguageNameCol, PhonemeOldCol, SegmentCol>>,
      <<InventoryIDCol, LanguageNameCol>> }

\* the cells a column of a row is drawn from: the column the segment is
\* read from may be blank, a lower-priority segment column is filled
CommonCells(fieldnames, col) ==
    IF col = InventoryIDCol THEN {<<>>, InvA, InvB}
    ELSE IF col = LanguageNameCol THEN {<<>>, LangL1}
    ELSE IF col = SegmentField(fieldnames) THEN {<<>>, SegP}
    ELSE {SegT}

CommonRows(fieldnames) ==
    { r \in [1..Len(fieldnames) -> {<<>>, InvA, InvB, LangL1, SegP, SegT}] :
        \A i \in 1..Len(fieldnames) :
            r[i] \in CommonCells(fieldnames, fieldnames[i]) }

CommonFile(fieldnames, rows) ==
    [exists |-> TRUE, fieldnames |-> fieldnames, rows |-> rows]

CommonInit ==
    /\ pc = "call"
    /\ \E h \in CommonHeaders, n \in 0..MaxRows :
          \E rs \in [1..n -> CommonRows(h)] :
             arg = [file |-> CommonFile(h, rs), source |-> SourceAA]
    /\ ret = NoResult
    /\ ret2 = NoResult
    /\ MainIdle

CallReadCommon ==
    /\ pc = "call"
    /\ ret' = read_phoible_common(arg.file, arg.source)
    /\ pc' = "returned"
    /\ UNCHANGED <<arg, ret2, mainVars>>

CommonNext == CallReadCommon

SpecCommon == CommonInit /\ [][CommonNext]_vars

\* the j-th smallest element of a set of numbers
JthOf(S, j) == CHOOSE k \in S : Cardinality({m \in S : m <= k}) = j

\* the last non-empty cell of column col in rows 1..k, None without one
LastNonEmpty(rowdicts, col, k) ==
    LET filled == { m \in 1..k : Truthy(rowdicts[m][col]) }
    IN  IF filled = {} THEN NoneVal
        ELSE rowdicts[CHOOSE m \in filled : \A o \in filled : o <= m][col]

\* C7: every entry read_phoible_common returns comes from a row with a
\* non-empty segment field, in row order, one per such row, and carries the
\* last non-empty inventory id and language name seen at or before its row;
\* a row whose segment field is empty emits nothing.
C7_RowInheritance ==
    (pc = "returned" /\ ret.ok /\ "file" \in DOMAIN arg) =>
        LET f == arg.file
            rowdicts == [k \in 1..Len(f.rows) |->
                            DictRow(f.fieldnames, f.rows[k])]
            sf == SegmentField(f.fieldnames)
            emitting == { k \in 1..Len(f.rows) : Truthy(rowdicts[k][sf]) }
        IN  /\ Len(ret.val) = Cardinality(emitting)
            /\ \A j \in 1..Len(ret.val) :
                 LET k == JthOf(emitting, j)
                 IN  /\ ret.val[j].segment_raw = rowdicts[k][sf]
                     /\ ret.val[j].inv_id =
                            LastNonEmpty(rowdicts, InventoryIDCol, k)
                     /\ ret.val[j].lang_id =
                            arg.source \o <<"_">> \o
                            Str(LastNonEmpty(rowdicts, LanguageNameCol, k))

\* C7 witness: of three rows the second names a new inventory but has no
\* segment, and the third, blank but for its segment, inherits inventory B
\* and language L1.
C7_Witness ==
    /\ pc = "returned"
    /\ ret.ok
    /\ "file" \in DOMAIN arg
    /\ arg.file.fieldnames = <<InventoryIDCol, LanguageNameCol, PhonemeCol>>
    /\ arg.file.rows = << <<InvA, LangL1, SegP>>, <<InvB, <<>>, <<>> >>,
                          << <<>>, <<>>, SegP>> >>
    /\ Len(ret.val) = 2
    /\ ret.val[2].inv_id = InvB
    /\ ret.val[2].lang_id = <<"A", "A", "_", "L", "1">>

---------------------------------------------------------------------------
(* SpecRA: read_phoible_ra applied to one file.                            *)

RaHeaders ==
    { <<InventoryIDCol, HashCol, LanguageNameSpCol, LanguageCodeCol>> \o segs :
        segs \in UNION { [1..n -> {SegP, SegT}] : n \in 0..MaxCols } }

RaCells == {One, <<>>, <<"0">>}

\* data row k of a file with header fields: its inventory id is k
RaRows(fields, k) ==
    { <<StrInt(k), One, LangL1, <<"x">> >> \o cells :
        cells \in [1..(Len(fields) - 4) -> RaCells] }

RECURSIVE RaDataRows(_, _)
RaDataRows(fields, n) ==
    IF n = 0 THEN { <<>> }
    ELSE { rs \o <<r>> : rs \in RaDataRows(fields, n - 1),
                         r \in RaRows(fields, n) }

RaPreamble == << <<<<"d", "e", "s", "c", "r", "i", "p", "t", "i", "o", "n">>>>, <<<<"h", "e", "a", "d", "e", "r">>>> >>

RaFile(fields, datarows) ==
    [exists |-> TRUE, fieldnames |-> <<>>,
     rows |-> RaPreamble \o <<fields>> \o datarows]

RaInit ==
    /\ pc = "call"
    /\ \E fields \in RaHeaders, n \in 0..MaxRaRows :
          \E rs \in RaDataRows(fields, n) : arg = RaFile(fields, rs)
    /\ ret = NoResult
    /\ ret2 = NoResult
    /\ MainIdle

CallReadRa ==
    /\ pc = "call"
    /\ ret' = read_phoible_ra(arg)
    /\ pc' = "returned"
    /\ UNCHANGED <<arg, ret2, mainVars>>

RaNext == CallReadRa

SpecRA == RaInit /\ [][RaNext]_vars

\* the (row, column) pairs of a file whose column is no metadata column and
\* whose cell is "1", in reading order
RaOnes(file) ==
    LET fields == file.rows[HeaderLine]
        nrows == Len(file.rows) - HeaderLine
        ncols == Len(fields)
        hit(n) == LET r == ((n - 1) \div ncols) + 1
                      c == ((n - 1) % ncols) + 1
                  IN  /\ fields[c] \notin RaMetaCols
                      /\ file.rows[HeaderLine + r][c] = One
    IN  { n \in 1..(nrows * ncols) : hit(n) }

\* C8: read_phoible_ra emits, for every data row, exactly one entry for each
\* header column that is no metadata column and whose cell in the row is
\* "1", and no entry for any other cell.
C8_OneEntryPerOneCell ==
    (pc = "returned" /\ "rows" \in DOMAIN arg) =>
        LET fields == arg.rows[HeaderLine]
            ncols == Len(fields)
            ones == RaOnes(arg)
        IN  /\ ret.ok
            /\ Len(ret.val) = Cardinality(ones)
            /\ \A j \in 1..Len(ret.val) :
                 LET n == JthOf(ones, j)
                     r == ((n - 1) \div ncols) + 1
                     c == ((n - 1) % ncols) + 1
                 IN  /\ ret.val[j].segment_raw = fields[c]
                     /\ ret.val[j].inv_id = arg.rows[HeaderLine + r][1]

\* C8 on the files whose header names every column once: the claim's
\* statement holds of them.
RaDistinctHeaderExact ==
    (/\ pc = "returned"
     /\ "rows" \in DOMAIN arg
     /\ \A c, d \in 1..Len(arg.rows[HeaderLine]) :
            arg.rows[HeaderLine][c] = arg.rows[HeaderLine][d] => c = d)
        => C8_OneEntryPerOneCell

---------------------------------------------------------------------------
(* SpecNorm: normalize_grapheme applied to a raw string, then to its own   *)
(* result.                                                                 *)

NormAlphabet == {"(", ")", "[", "]", "a", CombiningTilde}

NormInit ==
    /\ pc = "call"
    /\ arg \in TextsOver(NormAlphabet, 1, MaxLen)
    /\ ret = NoResult
    /\ ret2 = NoResult
    /\ MainIdle

Normalize ==
    /\ pc = "call"
    /\ ret' = normalize_grapheme(arg)
    /\ pc' = "returned"
    /\ UNCHANGED <<arg, ret2, mainVars>>

NormalizeAgain ==
    /\ pc = "returned"
    /\ ret.ok
    /\ ret2' = normalize_grapheme(ret.val)
    /\ pc' = "twice"
    /\ UNCHANGED <<arg, ret, mainVars>>

NormNext == Normalize \/ NormalizeAgain

SpecNorm == NormInit /\ [][NormNext]_vars

\* C1: normalize_grapheme is idempotent: whenever normalizing a non-empty
\* raw string returns and normalizing that result returns, the second result
\* equals the first.
C1_Idempotent ==
    (pc = "twice" /\ ret2.ok) => ret2.val = ret.val

\* C6: normalize_grapheme returns the empty string, without raising, when
\* its input is exactly a delimiter pair, "()" or "[]".
C6_DelimiterPairReturnsEmpty ==
    (pc = "returned" /\ arg \in {<<"(", ")">>, <<"[", "]">>})
        => ret = Ok(<<>>)

---------------------------------------------------------------------------
(* SpecId: compute_id applied to a string.                                 *)

IdAlphabet == {"A", "a", "U+1000", "U+10001", "U+10041"}

IdTexts == TextsOver(IdAlphabet, 0, MaxIdLen)

IdInit ==
    /\ pc = "call"
    /\ arg \in IdTexts
    /\ ret = NoResult
    /\ ret2 = NoResult
    /\ MainIdle

ComputeId ==
    /\ pc = "call"
    /\ ret' = Ok(compute_id(arg))
    /\ pc' = "returned"
    /\ UNCHANGED <<arg, ret2, mainVars>>

IdNext == ComputeId

SpecId == IdInit /\ [][IdNext]_vars

\* C9: the codepoint fingerprint of compute_id is injective: no string with
\* another codepoint sequence has the fingerprint (the part of the
\* identifier after the underscore) that compute_id returned for arg.
C9_FingerprintInjective ==
    pc = "returned" =>
        \A other \in IdTexts :
            other # arg =>
                AfterFirst(compute_id(other), "_") # AfterFirst(ret.val, "_")

\* C9 witness: an identifier was computed for a string that holds a
\* codepoint above U+FFFF, whose token is five hex digits wide.
C9_Witness ==
    /\ pc = "returned"
    /\ arg = <<"U+1000", "U+10041">>
    /\ AfterFirst(ret.val, "_") =
         <<"u", "1", "0", "0", "0", "u", "1", "0", "0", "4", "1">>

---------------------------------------------------------------------------
(* Spec: Dataset.cmd_makecldf, from the language tables to the write.      *)

\* the raw segments the input files hold
MainSegments ==
    { <<"a">>, <<"(", "a", ")">>, <<"<", "a", ">">>,
      <<"a", "|", ATilde>>, <<"a", CombiningTilde>>, <<"<", ">">> }

CommonHeader == <<InventoryIDCol, LanguageNameCol, PhonemeCol>>

\* the files a call of read_phoible_common may find: none, one without
\* rows, one with a row of a mapped inventory, one with a row of an
\* inventory that has no language
MainCommonFiles ==
    {NoFile}
    \cup { [exists |-> TRUE, fieldnames |-> CommonHeader, rows |-> <<>>] }
    \cup { [exists |-> TRUE, fieldnames |-> CommonHeader,
            rows |-> << <<InvA, LangL1, seg>> >>] : seg \in MainSegments }
    \cup { [exists |-> TRUE, fieldnames |-> CommonHeader,
            rows |-> << <<InvB, LangL1, <<"a">> >> >>] }

MainRaSegments == { <<"a">>, <<"(", "a", ")">> }

\* the files read_phoible_ra may find: none, and files of one segment
\* column with no row, a row with "1", a row with a blank cell, a row that
\* ends before the segment column
MainRaFiles ==
    {NoFile}
    \cup UNION {
        { [exists |-> TRUE, fieldnames |-> <<>>,
           rows |-> RaPreamble \o
                    << <<InventoryIDCol, HashCol, LanguageNameSpCol,
                         LanguageCodeCol, seg>> >> \o rs] :
            rs \in { <<>>,
                     << <<InvA, One, LangL1, <<"x">>, One>> >>,
                     << <<InvA, One, LangL1, <<"x">>, <<>> >> >>,
                     << <<InvA, One, LangL1, <<"x">> >> >> } } :
        seg \in MainRaSegments }

\* a SAPHON header: Name, InventoryID and 15 more columns, the segment
\* columns, 37 more columns
SaphonHeader(segs) ==
    <<NameCol, InventoryIDCol>>
    \o [k \in 1..(SaphonPrefix - 2) |-> <<"m">> \o StrInt(k)]
    \o segs
    \o [k \in 1..SaphonSuffix |-> <<"n">> \o StrInt(k)]

SaphonCells(nsegs, cell) ==
    <<LangL1, InvA>>
    \o [k \in 1..(SaphonPrefix - 2) |-> <<>>]
    \o [k \in 1..nsegs |-> cell]
    \o [k \in 1..SaphonSuffix |-> <<>>]

MainSaphonFiles ==
    {NoFile}
    \cup UNION {
        { [exists |-> TRUE, fieldnames |-> SaphonHeader(<<seg>>),
           rows |-> rs] :
            rs \in { <<>>, <<SaphonCells(1, One)>>,
                     <<SaphonCells(1, <<>>)>> } } :
        seg \in MainRaSegments }

MainUpsidSegments == { <<"a">>, <<"(", "a", ")">>, <<"<", "a", ">">>, <<>> }

\* the UPSID directories: none, and directories of one language and one
\* character code with no segment row, a row flagged anomalous or not, or
\* a row of a language number the language files do not have
MainUpsidDirs ==
    { [exists |-> FALSE, Languages |-> <<>>, LanguageCodes |-> <<>>,
       CharCodes |-> <<>>, Segments |-> <<>>] }
    \cup UNION {
        { [exists |-> TRUE,
           Languages |-> << [LangName |-> <<"U", "n", "a", "m", "e">>, LangNum |-> One] >>,
           LanguageCodes |-> << [LanguageName |-> <<"U", "n", "a", "m", "e">>,
                                 upsidLangNum |-> One,
                                 InventoryID |-> InvA] >>,
           CharCodes |-> << [CCID |-> <<"c", "1">>, IPA |-> seg] >>,
           Segments |-> rs] :
            rs \in { <<>>,
                     << [upsidLangNum |-> One, upsidCCID |-> <<"c", "1">>,
                         anomalous |-> Zero] >>,
                     << [upsidLangNum |-> One, upsidCCID |-> <<"c", "1">>,
                         anomalous |-> One] >>,
                     << [upsidLangNum |-> <<"9">>, upsidCCID |-> <<"c", "1">>,
                         anomalous |-> Zero] >> } } :
        seg \in MainUpsidSegments }

\* read_raw_phoible_data: the source of each call of read_phoible_common,
\* in call order; read_phoible_ra, read_phoible_saphon and
\* read_phoible_upsid follow
CommonCalls == << <<"A", "A">>, <<"E", "A">>, <<"E", "R">>, <<"G", "M">>, <<"G", "M">>, <<"P", "H">>, <<"U", "Z">> >>
RaCall == Len(CommonCalls) + 1
SaphonCall == Len(CommonCalls) + 2
UpsidCall == Len(CommonCalls) + 3

Init ==
    /\ pc = "setup"
    /\ arg \in { [languages |-> LanguagesCsv],
                 [languages |-> LanguagesCsvUnknown] }
    /\ ret = NoResult
    /\ ret2 = NoResult
    /\ MainIdle

\* lines 295-383: the components are added and the language tables built
Setup ==
    /\ pc = "setup"
    /\ IF Languages(arg.languages).ok
       THEN /\ pc' = "read"
            /\ reader' = 1
            /\ error' = error
       ELSE /\ pc' = "failed"
            /\ reader' = reader
            /\ error' = Languages(arg.languages).err
    /\ UNCHANGED <<arg, ret, ret2, data, data0, idx, parameters, values,
                   counter, written>>

\* data += <reader>(...): the entries are appended, or the reader's
\* exception ends the run; after the last reader the loop starts
\* (lines 389-391)
Collect(r) ==
    /\ r.ok => Len(data) + Len(r.val) <= MaxEntries
    /\ IF r.ok
       THEN /\ data' = data \o r.val
            /\ data0' = data0 \o r.val
            /\ reader' = reader + 1
            /\ pc' = IF reader = UpsidCall THEN "loop" ELSE "read"
            /\ idx' = IF reader = UpsidCall THEN 1 ELSE idx
            /\ error' = error
       ELSE /\ pc' = "failed"
            /\ error' = r.err
            /\ UNCHANGED <<data, data0, reader, idx>>
    /\ UNCHANGED <<arg, ret, ret2, parameters, values, counter, written>>

ReadCommon ==
    /\ pc = "read"
    /\ reader \in 1..Len(CommonCalls)
    /\ \E file \in MainCommonFiles :
           Collect(read_phoible_common(file, CommonCalls[reader]))

ReadRa ==
    /\ pc = "read"
    /\ reader = RaCall
    /\ \E file \in MainRaFiles : Collect(read_phoible_ra(file))

ReadSaphon ==
    /\ pc = "read"
    /\ reader = SaphonCall
    /\ \E file \in MainSaphonFiles : Collect(read_phoible_saphon(file))

ReadUpsid ==
    /\ pc = "read"
    /\ reader = UpsidCall
    /\ \E dir \in MainUpsidDirs : Collect(read_phoible_upsid(dir))

\* one pass of the loop over data (lines 392-431); an exception ends the
\* run with what the pass had changed before it
Aggregate ==
    /\ pc = "loop"
    /\ idx <= Len(data)
    /\ LET entry == data[idx]
       IN  IF entry.segment_raw = <<>>
           THEN /\ pc' = "failed"
                /\ error' = "IndexError"
                /\ UNCHANGED <<data, parameters, values, counter, idx>>
           ELSE
           LET marked == MarkMarginal(entry.segment_raw)
               stripped == [entry EXCEPT
                               !.segment_raw =
                                   FirstAllophone(marked.segment_raw),
                               !.marginal = marked.marginal]
               normalized == normalize_grapheme(stripped.segment_raw)
               language == LanguageOf(PhoibleLang(arg.languages),
                                      stripped.inv_id)
           IN  /\ data' = [data EXCEPT ![idx] = stripped]
               /\ IF ~normalized.ok
                  THEN /\ pc' = "failed"
                       /\ error' = normalized.err
                       /\ UNCHANGED <<parameters, values, counter, idx>>
                  ELSE /\ parameters' =
                              Append(parameters, ParameterOf(normalized.val))
                       /\ IF ~language.ok
                          THEN /\ pc' = "failed"
                               /\ error' = language.err
                               /\ UNCHANGED <<values, counter, idx>>
                          ELSE /\ values' =
                                      Append(values,
                                          ValueRow(stripped,
                                              ParameterOf(normalized.val)[1],
                                              counter, language.val))
                               /\ counter' = counter + 1
                               /\ idx' = idx + 1
                               /\ UNCHANGED <<pc, error>>
    /\ UNCHANGED <<arg, ret, ret2, reader, data0, written>>

\* lines 434-447: the segments are built and everything is written
Write ==
    /\ pc = "loop"
    /\ idx > Len(data)
    /\ written' = [called |-> TRUE,
                   ValueTable |-> values,
                   LanguageTable |-> Languages(arg.languages).val,
                   ParameterTable |-> SegmentsOf(parameters),
                   inventories |-> <<>>]
    /\ pc' = "done"
    /\ UNCHANGED <<arg, ret, ret2, reader, data, data0, idx, parameters,
                   values, counter, error>>

Next ==
    \/ Setup
    \/ ReadCommon
    \/ ReadRa
    \/ ReadSaphon
    \/ ReadUpsid
    \/ Aggregate
    \/ Write

Spec == Init /\ [][Next]_vars

---------------------------------------------------------------------------
(* Properties of Spec.                                                     *)

\* the normalized text of the entry at place i of data, once the loop has
\* passed it
NormalizedAt(i) == normalize_grapheme(data[i].segment_raw).val

\* C2: once the run has written, the segment table holds exactly one
\* segment for each distinct normalized text of the entries (whatever
\* their sources), and the Value table holds one Value for each entry, in
\* order, whose Parameter_ID is the ID of the segment of the entry's
\* normalized text.
C2_OneSegmentPerNormalizedText ==
    pc = "done" =>
        /\ Len(written.ValueTable) = Len(data0)
        /\ \A i \in 1..Len(data0) :
             \E s \in written.ParameterTable :
                /\ s.Name = NormalizedAt(i)
                /\ s.ID = written.ValueTable[i].Parameter_ID
        /\ \A s \in written.ParameterTable :
             \E i \in 1..Len(data0) : s.Name = NormalizedAt(i)
        /\ \A s, t \in written.ParameterTable : s.Name = t.Name => s = t

\* C2 witness: two sources report a segment that normalizes to "a", one as
\* "a" and one as "(a)"; one segment is written and two Values that name it.
C2_Witness ==
    /\ pc = "done"
    /\ Len(data0) = 2
    /\ data0[1].source # data0[2].source
    /\ data0[1].segment_raw = <<"a">>
    /\ data0[2].segment_raw = <<"(", "a", ")">>
    /\ Cardinality(written.ParameterTable) = 1
    /\ Len(written.ValueTable) = 2
    /\ written.ValueTable[1].Parameter_ID = written.ValueTable[2].Parameter_ID

\* C3: an entry read as a parenthesized segment "(x)" with the reader's
\* explicit marginal flag set ends its pass of the loop marked marginal.
C3_FlaggedParenthesizedStaysMarginal ==
    \A i \in 1..Len(data0) :
        (/\ pc \in {"loop", "done"}
         /\ i < idx
         /\ Len(data0[i].segment_raw) >= 3
         /\ data0[i].segment_raw[1] = "("
         /\ data0[i].segment_raw[Len(data0[i].segment_raw)] = ")"
         /\ data0[i].marginal = TrueStr)
            => data[i].marginal = TrueStr

C5_FailFastNoPartialOutput ==
    /\ error # "none" => (pc = "failed" /\ ~written.called)
    /\ pc = "failed" => ~written.called
    /\ written.called =>
          /\ error = "none"
          /\ reader = UpsidCall + 1
          /\ idx = Len(data0) + 1
          /\ Len(written.ValueTable) = Len(data0)
          /\ \A i \in 1..Len(data0) :
                /\ data0[i].inv_id \in DOMAIN PhoibleLang(arg.languages)
                /\ written.ValueTable[i].Language_ID =
                       PhoibleLang(arg.languages)[data0[i].inv_id]

\* C5 witness: the second entry's inventory has no language; the run ends
\* with a KeyError after the first entry's Value was built, and nothing is
\* written.
C5_Witness ==
    /\ pc = "failed"
    /\ error = "KeyError"
    /\ idx = 2
    /\ Len(values) = 1
    /\ Len(parameters) = 2
    /\ data0[2].inv_id = InvB
    /\ ~written.called

\* C10: the loop never fails on an entry whose raw segment is not empty:
\* what is left of it after the stripping and the allophone split is not
\* empty when it is handed to normalize_grapheme.
C10_NormalizerInputNeverEmpty ==
    (pc = "failed" /\ idx \in 1..Len(data0)
        /\ data0[idx].segment_raw # <<>>)
        => /\ error # "IndexError"
           /\ data[idx].segment_raw # <<>>

===========================================================================
